---- MODULE Spec2Model ----
(***************************************************************************)
(* Model of src/worker.js: a scheduled Cloudflare-worker style job that    *)
(* logs in to Koyeb for every configured account (loginKoyeb), collects    *)
(* one outcome line per processed account (scheduledEventHandler) and      *)
(* sends the report, or a standalone error message, to Telegram            *)
(* (sendTGMessage).                                                        *)
(*                                                                         *)
(* JavaScript strings that the code operates on (trim, split, slice,       *)
(* startsWith) are sequences of one-character strings.  Every await of the *)
(* code is a yield point: the part of a function between two awaits is one *)
(* action.  Calling an async function runs it up to its first await inside *)
(* the caller's action (LoginEnter, SendEnter).                            *)
(***************************************************************************)
EXTENDS Integers, Sequences, FiniteSets, TLC

VARIABLES
    env,            \* event.environment: the configuration of this invocation
    hpc,            \* position of scheduledEventHandler (or of a direct caller)
    accounts,       \* KOYEB_ACCOUNTS after JSON.parse
    index,          \* loop variable of the batch loop (0-based, as in the code)
    results,        \* results[]: the outcome lines pushed so far
    successCount,   \* successCount
    events,         \* history: "delay" / "login" steps the batch loop has taken
    sent,           \* history: the messages passed to sendTGMessage
    lpc,            \* position of the running loginKoyeb call
    largs,          \* its arguments (email, password)
    lpre,           \* how the preflight GET ended, kept until the POST resolves
    cookie,         \* preflightCookie
    lresp,          \* the response the login POST resolved to
    lret,           \* what the loginKoyeb call resolved to
    netlog,         \* history: the fetch calls the current loginKoyeb call issued
    timersSet,      \* number of 30 s timers created so far (one per login POST)
    timersFired,    \* number of them that have fired (they fire in creation order)
    spc,            \* position of the running sendTGMessage call
    sresp,          \* status of the non-ok response whose text is being read
    sret,           \* what the sendTGMessage call resolved to
    tgCalls,        \* history: payloads the current sendTGMessage call has posted
    tgOutcomes      \* history: how each of those posts ended

hvars == <<env, hpc, accounts, index, results, successCount, events, sent>>
lvars == <<lpc, largs, lpre, cookie, lresp, lret, netlog>>
tvars == <<timersSet, timersFired>>
svars == <<spc, sresp, sret, tgCalls, tgOutcomes>>
vars == <<hvars, lvars, tvars, svars>>

----------------------------------------------------------------------------
(* Bounds of the model *)

\* longest KOYEB_ACCOUNTS array that is enumerated
MaxAccounts == 2

----------------------------------------------------------------------------
(* Program constants *)

\* errorText.slice(0, 200)
DiagCap == 200
\* the status sendTGMessage retries as plain text: startsWith('HTTP 400')
RetryStatus == 400
\* response.status === 403
ChallengeStatus == 403

----------------------------------------------------------------------------
(* JavaScript string operations *)

Min(a, b) == IF a < b THEN a ELSE b

\* The characters String.prototype.trim removes: WhiteSpace (tab, VT, FF,
\* space, NBSP, ZWNBSP, the Zs category) and LineTerminator (LF, CR, LS, PS).
\* A character that a string of this module cannot hold is written <U+hex>.
WhiteSpaceChars ==
    { "\t", "", "\f", " ", " ", "\n", "\r",
      "<U+0009>", "<U+000B>", "<U+000C>", "<U+0020>", "<U+00A0>", "<U+FEFF>",
      "<U+1680>", "<U+2000>", "<U+2001>", "<U+2002>", "<U+2003>", "<U+2004>",
      "<U+2005>", "<U+2006>", "<U+2007>", "<U+2008>", "<U+2009>", "<U+200A>",
      "<U+202F>", "<U+205F>", "<U+3000>",
      "<U+000A>", "<U+000D>", "<U+2028>", "<U+2029>" }

IsSpace(c) == c \in WhiteSpaceChars

RECURSIVE TrimStart(_)
TrimStart(s) ==
    IF s = <<>> THEN <<>>
    ELSE IF IsSpace(Head(s)) THEN TrimStart(Tail(s)) ELSE s

RECURSIVE TrimEnd(_)
TrimEnd(s) ==
    IF s = <<>> THEN <<>>
    ELSE IF IsSpace(s[Len(s)]) THEN TrimEnd(SubSeq(s, 1, Len(s) - 1)) ELSE s

\* String.prototype.trim
Trim(s) == TrimEnd(TrimStart(s))

\* String.prototype.startsWith
StartsWith(s, p) == Len(s) >= Len(p) /\ SubSeq(s, 1, Len(p)) = p

\* String.prototype.slice(0, n)
Slice0(s, n) == SubSeq(s, 1, Min(n, Len(s)))

\* s.split(sep)[0]: the part of s before the first sep
RECURSIVE SplitFirst(_, _)
SplitFirst(s, sep) ==
    IF s = <<>> THEN <<>>
    ELSE IF Head(s) = sep THEN <<>>
    ELSE <<Head(s)>> \o SplitFirst(Tail(s), sep)

DigitChar(d) ==
    CASE d = 0 -> "0" [] d = 1 -> "1" [] d = 2 -> "2" [] d = 3 -> "3"
      [] d = 4 -> "4" [] d = 5 -> "5" [] d = 6 -> "6" [] d = 7 -> "7"
      [] d = 8 -> "8" [] OTHER -> "9"

\* `${n}` for a non-negative integer
RECURSIVE NumToStr(_)
NumToStr(n) ==
    IF n < 10 THEN <<DigitChar(n)>>
    ELSE NumToStr(n \div 10) \o <<DigitChar(n % 10)>>

----------------------------------------------------------------------------
(* JavaScript values read from the configuration *)

Undef == [t |-> "undef", s |-> <<>>]
Str(s) == [t |-> "str", s |-> s]
\* a non-zero number where a string is expected, e.g. "email": 12345
Num == [t |-> "num", s |-> <<>>]

\* !v
Falsy(v) == v.t = "undef" \/ (v.t = "str" /\ v.s = <<>>)

Account(e, p) == [isNull |-> FALSE, email |-> e, password |-> p]
NullAccount == [isNull |-> TRUE, email |-> Undef, password |-> Undef]


----------------------------------------------------------------------------
(* Inputs: the configuration the scheduler hands to the handler *)

EmailA == <<"a">>
EmailB == <<"\t", "b", " ">>
EmailC == <<"c">>
Blank == <<" ", "\n">>
Pw == <<"p">>

\* the records a KOYEB_ACCOUNTS array is built from
AccountPool ==
    { Account(Str(EmailA), Str(Pw)),      \* complete
      Account(Str(EmailB), Str(Pw)),      \* complete, email padded with a tab and a space
      Account(Undef, Str(Pw)),            \* no email
      Account(Str(Blank), Str(Pw)),       \* email of white space only
      Account(Str(EmailC), Str(<<>>)),    \* empty password
      Account(Num, Str(Pw)),              \* email that is not a string
      NullAccount }                       \* null in place of a record

AccountLists == UNION { [1..n -> AccountPool] : n \in 0..MaxAccounts }

\* env.KOYEB_ACCOUNTS: unset, not JSON, or the JSON text of null, {} or an array
AccountsConfigs ==
    { [kind |-> k, items |-> <<>>] : k \in {"absent", "badjson", "null", "object"} }
        \cup { [kind |-> "array", items |-> l] : l \in AccountLists }

\* env.TG_BOT_TOKEN and env.TG_CHAT_ID: unset, empty or set
TokenValues == { Undef, Str(<<"t">>) }
ChatValues == { Str(<<>>), Str(<<"9">>) }

\* event.environment when it is an object
EnvObjects ==
    [ defined : {TRUE},
      KOYEB_ACCOUNTS : AccountsConfigs, TG_BOT_TOKEN : TokenValues, TG_CHAT_ID : ChatValues ]

\* event.environment when the event has no such property (undefined), or null:
\* reading a property of it throws a TypeError
NoEnvironment ==
    [defined |-> FALSE,
     KOYEB_ACCOUNTS |-> [kind |-> "absent", items |-> <<>>],
     TG_BOT_TOKEN |-> Undef, TG_CHAT_ID |-> Undef]

\* line 192 passes event.environment as it is
Envs == EnvObjects \cup { NoEnvironment }

\* arguments of a direct call of loginKoyeb
DirectEmails == { Undef, Str(<<>>), Str(Blank), Str(EmailA), Num }
DirectPasswords == { Undef, Str(<<>>), Str(Pw) }

----------------------------------------------------------------------------
(* loginKoyeb: results *)

\* a diagnostic message; tag names the text, status/detail/challenge fill
\* `HTTP状态码 ${status} - ${detail}（可能需要验证码或 Cookie）`
Msg(tag) == [tag |-> tag, status |-> 0, detail |-> "none", challenge |-> FALSE]
HttpMsg(status, detail) ==
    [tag |-> "http", status |-> status, detail |-> detail,
     challenge |-> (status = ChallengeStatus)]

CredentialsEmptyMsg == Msg("credentials_empty")   \* "邮箱或密码为空"
LoginOkMsg == Msg("login_ok")                     \* "登录成功"
TimeoutMsg == Msg("timeout")                      \* "请求超时"
AbortErrorMsg == Msg("abort_error")               \* message of the fetch's AbortError
NetworkErrorMsg == Msg("network_error")           \* message of a failed fetch
BodyErrorMsg == Msg("body_error")                 \* message of a failed body read or parse
TypeErrorMsg == Msg("type_error")                 \* "email.trim is not a function"

NoResult == [kind |-> "none", success |-> FALSE, message |-> Msg("none")]
Pair(success, message) == [kind |-> "pair", success |-> success, message |-> message]
Thrown(message) == [kind |-> "throw", success |-> FALSE, message |-> message]

\* faulty variant of CredentialsEmpty: only the email is checked
CredentialsEmptyEmailOnly(email, password) == Falsy(email)

\* if (!email || !password)
CredentialsEmpty(email, password) == Falsy(email) \/ Falsy(password)

\* email.trim() of line 63, before the try of line 65: a truthy email that is
\* not a string has no trim
TrimThrows(email) == email.t = "num"

\* faulty variant of LoginOuterCatch: the exception is rethrown
LoginOuterCatchRethrows(e) == Thrown(e)

\* catch (e) { return [false, e.message]; }
LoginOuterCatch(e) == Pair(FALSE, e)

----------------------------------------------------------------------------
(* loginKoyeb: the network *)

GetCall == [method |-> "GET", cookie |-> <<>>, email |-> <<>>]
PostCall(c, email) == [method |-> "POST", cookie |-> c, email |-> email]

NoHeader == [present |-> FALSE, value |-> <<>>]
Header(v) == [present |-> TRUE, value |-> v]

\* how the preflight GET can end
PreflightOutcomes ==
    { [threw |-> TRUE, ok |-> FALSE, setCookie |-> NoHeader],
      [threw |-> FALSE, ok |-> FALSE, setCookie |-> Header(<<"s", ";", "P">>)],
      [threw |-> FALSE, ok |-> TRUE, setCookie |-> NoHeader],
      [threw |-> FALSE, ok |-> TRUE, setCookie |-> Header(<<"s", ";", "P">>)],
      [threw |-> FALSE, ok |-> TRUE, setCookie |-> Header(<<";", "P">>)] }

\* the preflight has not ended
NoPreflight == [threw |-> FALSE, ok |-> FALSE, setCookie |-> NoHeader]

\* faulty variant of HarvestCookie: the status of the preflight is not looked at
HarvestCookieAnyStatus(pre) ==
    IF ~pre.threw /\ pre.setCookie.present /\ pre.setCookie.value # <<>>
    THEN SplitFirst(pre.setCookie.value, ";")
    ELSE <<>>

\* preflightCookie after the preflight
HarvestCookie(pre) ==
    IF ~pre.threw /\ pre.ok /\ pre.setCookie.present /\ pre.setCookie.value # <<>>
    THEN SplitFirst(pre.setCookie.value, ";")
    ELSE <<>>

NoResponse == [status |-> 0, json |-> FALSE]
\* a response with response.ok
OkResponse == [status |-> 200, json |-> TRUE]
\* a non-ok response of the login POST: its status and whether it is
\* JSON-typed; one response with the status of line 109 and a JSON body, one
\* with another status and a text body
ErrorResponses ==
    { [status |-> ChallengeStatus, json |-> TRUE],
      [status |-> 500, json |-> FALSE] }

\* how reading the body of a non-ok response can end
BodyOutcomes(resp) ==
    IF resp.json THEN { "message", "stringify", "throw" }
                 ELSE { "text", "empty", "throw" }

----------------------------------------------------------------------------
(* loginKoyeb: the call *)

\* The call up to its first await: the credentials check, the trim of the
\* email (its TypeError leaves the function), then the preflight GET.
LoginEnter(email, password) ==
    /\ largs' = [email |-> email, password |-> password]
    /\ lpre' = NoPreflight
    /\ cookie' = <<>>
    /\ lresp' = NoResponse
    /\ IF CredentialsEmpty(email, password)
       THEN /\ lpc' = "ret"
            /\ lret' = Pair(FALSE, CredentialsEmptyMsg)
            /\ netlog' = <<>>
       ELSE IF TrimThrows(email)
       THEN /\ lpc' = "ret"
            /\ lret' = Thrown(TypeErrorMsg)
            /\ netlog' = <<>>
       ELSE /\ lpc' = "preflight"
            /\ lret' = NoResult
            /\ netlog' = <<GetCall>>

\* The preflight GET has ended: harvest the cookie, arm the timer, issue the POST.
PreflightResolve ==
    /\ lpc = "preflight"
    /\ \E pre \in PreflightOutcomes :
         /\ lpre' = pre
         /\ cookie' = HarvestCookie(pre)
         /\ netlog' = Append(netlog, PostCall(cookie', Trim(largs.email.s)))
    /\ timersSet' = timersSet + 1
    /\ lpc' = "post"
    /\ UNCHANGED <<largs, lresp, lret, timersFired>>
    /\ UNCHANGED <<hvars, svars>>

\* The POST wins the race: a success status, a non-ok status, or a rejection.
\* preflightCookie is not read after line 79; it and the preflight's outcome
\* are dropped here.
PostResolve ==
    /\ lpc = "post"
    /\ \/ /\ lpc' = "ret"
          /\ lret' = Pair(TRUE, LoginOkMsg)
          /\ lresp' = OkResponse
       \/ /\ lpc' = "ret"
          /\ lret' = LoginOuterCatch(NetworkErrorMsg)
          /\ lresp' = lresp
       \/ /\ \E resp \in ErrorResponses : lresp' = resp
          /\ lpc' = "body"
          /\ lret' = lret
    /\ lpre' = NoPreflight
    /\ cookie' = <<>>
    /\ UNCHANGED <<largs, netlog>>
    /\ UNCHANGED <<hvars, tvars, svars>>

\* The body of the non-ok response has been read (or reading it failed).
BodyResolve ==
    /\ lpc = "body"
    /\ \E b \in BodyOutcomes(lresp) :
         lret' = IF b = "throw" THEN LoginOuterCatch(BodyErrorMsg)
                 ELSE Pair(FALSE, HttpMsg(lresp.status, b))
    /\ lpc' = "ret"
    /\ UNCHANGED <<largs, lpre, cookie, lresp, netlog>>
    /\ UNCHANGED <<hvars, tvars, svars>>

\* faulty variant of TimerFire: the callback neither aborts nor rejects
TimerFireWithoutReject ==
    /\ timersFired < timersSet
    /\ timersFired' = timersFired + 1
    /\ timersSet' = timersSet
    /\ UNCHANGED lvars
    /\ UNCHANGED <<hvars, svars>>

\* The oldest pending 30 s timer fires: controller.abort(), then
\* reject(new Error("请求超时")).  While the POST is pending the race is settled
\* by whichever rejection is first: abortRejects says that the fetch rejects
\* the aborted request inside abort(), before the timer's reject.  While the
\* body is being read only the abort acts: the read of an aborted response
\* rejects with the AbortError.  The timer is never cleared, so it also fires
\* after its loginKoyeb call has returned, and then changes nothing.
TimerFire ==
    /\ timersFired < timersSet
    /\ timersFired' = timersFired + 1
    /\ timersSet' = timersSet
    /\ \E abortRejects \in BOOLEAN :
         IF timersFired + 1 = timersSet /\ lpc = "post"
         THEN /\ lret' = LoginOuterCatch(IF abortRejects THEN AbortErrorMsg ELSE TimeoutMsg)
              /\ lpc' = "ret"
              /\ lpre' = NoPreflight
              /\ cookie' = <<>>
         ELSE IF timersFired + 1 = timersSet /\ lpc = "body"
         THEN /\ lret' = LoginOuterCatch(AbortErrorMsg)
              /\ lpc' = "ret"
              /\ UNCHANGED <<lpre, cookie>>
         ELSE UNCHANGED <<lpc, lret, lpre, cookie>>
    /\ UNCHANGED <<largs, lresp, netlog>>
    /\ UNCHANGED <<hvars, svars>>

----------------------------------------------------------------------------
(* sendTGMessage *)

\* faulty variant of SendConfigMissing: skipped only when both values are missing
SendConfigBothMissing(e) == Falsy(e.TG_BOT_TOKEN) /\ Falsy(e.TG_CHAT_ID)

\* if (!botToken || !chatId)
SendConfigMissing(e) == Falsy(e.TG_BOT_TOKEN) \/ Falsy(e.TG_CHAT_ID)

HttpPrefix == <<"H", "T", "T", "P", " ">>
DetailsSep == <<" ", "-", " ">>
FetchFailedText == <<"f", "e", "t", "c", "h", " ", "f", "a", "i", "l", "e", "d">>
BodyFailedText == <<"b", "o", "d", "y", " ", "f", "a", "i", "l", "e", "d">>

BadText == <<"B", "a", "d">>

\* how one POST to the Bot API can end: a 2xx response (204 stands for the
\* statuses 200-299, which are all ok), a non-ok response whose text is read, a
\* non-ok response whose text cannot be read, a failed fetch
TgOutcomes ==
    { [kind |-> "ok", status |-> 204, text |-> <<>>],
      [kind |-> "network", status |-> 0, text |-> <<>>],
      [kind |-> "http", status |-> RetryStatus, text |-> BadText],
      [kind |-> "http", status |-> 403, text |-> BadText],
      [kind |-> "http", status |-> 500, text |-> <<>>],
      [kind |-> "textfail", status |-> RetryStatus, text |-> <<>>] }

\* message of the error sendJson throws for a post that did not end ok
SendJsonError(out) ==
    CASE out.kind = "http" ->
            HttpPrefix \o NumToStr(out.status)
                \o (IF out.text # <<>> THEN DetailsSep \o Slice0(out.text, DiagCap) ELSE <<>>)
      [] out.kind = "textfail" -> BodyFailedText
      [] OTHER -> FetchFailedText

\* faulty variant of ShouldRetryPlain: startsWith('HTTP 4'), every 4xx status is retried
ShouldRetryAny4xx(message) == StartsWith(message, HttpPrefix \o <<"4">>)

\* faulty variant of ShouldRetryPlain: every failed first post is retried
ShouldRetryAlways(message) == TRUE

\* error.message.startsWith('HTTP 400')
ShouldRetryPlain(message) == StartsWith(message, HttpPrefix \o NumToStr(RetryStatus))

\* faulty variant of SendOuterCatch: a failure is returned as false
SendOuterCatchReturnsFalse(message) == "false"

\* faulty variant of SendOuterCatch: the exception is rethrown
SendOuterCatchRethrows(message) == "throw"

\* outer catch (e) { ...; return null; }
SendOuterCatch(message) == "null"

MarkdownPayload == [parse_mode |-> TRUE]
PlainPayload == [parse_mode |-> FALSE]

\* return null of line 7: the send is skipped
SendSkipped == "null"

\* env.TG_BOT_TOKEN of line 2, before the try: env undefined or null throws
SendReadThrows(e) == ~e.defined
\* the TypeError of line 2 leaves the function
SendThrew == "throw"

\* how the fetch of line 12 can end: it rejects, or resolves to a response
FetchOutcomes ==
    { [kind |-> "network", status |-> 0] }
        \cup { [kind |-> "response", status |-> o.status] : o \in TgOutcomes \ { o \in TgOutcomes : o.kind = "network" } }

\* how a post whose response has this status can end (line 20: ok; line 21:
\* the text is read, or reading it fails)
TextOutcomes(status) ==
    { o \in TgOutcomes : o.kind \in {"http", "textfail"} /\ o.status = status }
OkOutcome(status) == [kind |-> "ok", status |-> status, text |-> <<>>]
NetworkOutcome ==
    CHOOSE o \in TgOutcomes : o.kind = "network"
\* response.ok: the status is in the range 200-299
ResponseOk(status) == status \in 200..299

\* The call up to its first await: the read of the configuration, its check,
\* then the first post.
SendEnter(e) ==
    /\ tgOutcomes' = <<>>
    /\ sresp' = 0
    /\ IF SendReadThrows(e)
       THEN /\ spc' = "ret"
            /\ sret' = SendThrew
            /\ tgCalls' = <<>>
       ELSE IF SendConfigMissing(e)
       THEN /\ spc' = "ret"
            /\ sret' = SendSkipped
            /\ tgCalls' = <<>>
       ELSE /\ spc' = "first"
            /\ sret' = "none"
            /\ tgCalls' = <<MarkdownPayload>>

\* lines 33-40: the first post has failed with the error of outcome out
FirstPostFailed(out) ==
    /\ tgOutcomes' = Append(tgOutcomes, out)
    /\ sresp' = 0
    /\ IF ShouldRetryPlain(SendJsonError(out))
       THEN /\ spc' = "retry"
            /\ sret' = sret
            /\ tgCalls' = Append(tgCalls, PlainPayload)
       ELSE /\ spc' = "ret"
            /\ sret' = SendOuterCatch(SendJsonError(out))
            /\ tgCalls' = tgCalls

\* The fetch of the Markdown post has ended (line 12).
SendFirstResolve ==
    /\ spc = "first"
    /\ \E f \in FetchOutcomes :
         IF f.kind = "network"
         THEN FirstPostFailed(NetworkOutcome)
         ELSE IF ResponseOk(f.status)
         THEN /\ tgOutcomes' = Append(tgOutcomes, OkOutcome(f.status))
              /\ spc' = "ret"
              /\ sret' = "true"
              /\ UNCHANGED <<sresp, tgCalls>>
         ELSE /\ spc' = "first_text"
              /\ sresp' = f.status
              /\ UNCHANGED <<sret, tgCalls, tgOutcomes>>
    /\ UNCHANGED <<hvars, lvars, tvars>>

\* The text of the non-ok answer to the Markdown post has been read, or
\* reading it failed (line 21).
SendFirstText ==
    /\ spc = "first_text"
    /\ \E out \in TextOutcomes(sresp) : FirstPostFailed(out)
    /\ UNCHANGED <<hvars, lvars, tvars>>

\* the plain-text post has failed with the error of outcome out: outer catch
RetryPostFailed(out) ==
    /\ tgOutcomes' = Append(tgOutcomes, out)
    /\ sresp' = 0
    /\ spc' = "ret"
    /\ sret' = SendOuterCatch(SendJsonError(out))
    /\ tgCalls' = tgCalls

\* The fetch of the plain-text post has ended (line 12).
SendRetryResolve ==
    /\ spc = "retry"
    /\ \E f \in FetchOutcomes :
         IF f.kind = "network"
         THEN RetryPostFailed(NetworkOutcome)
         ELSE IF ResponseOk(f.status)
         THEN /\ tgOutcomes' = Append(tgOutcomes, OkOutcome(f.status))
              /\ spc' = "ret"
              /\ sret' = "true"
              /\ UNCHANGED <<sresp, tgCalls>>
         ELSE /\ spc' = "retry_text"
              /\ sresp' = f.status
              /\ UNCHANGED <<sret, tgCalls, tgOutcomes>>
    /\ UNCHANGED <<hvars, lvars, tvars>>

\* The text of the non-ok answer to the plain-text post has been read, or
\* reading it failed (line 21).
SendRetryText ==
    /\ spc = "retry_text"
    /\ \E out \in TextOutcomes(sresp) : RetryPostFailed(out)
    /\ UNCHANGED <<hvars, lvars, tvars>>

----------------------------------------------------------------------------
(* scheduledEventHandler *)

ErrorMessage(cause) ==
    [kind |-> "error", cause |-> cause, total |-> 0, success |-> 0, failed |-> 0,
     lines |-> <<>>]

\* summary and tgMessage: the header counts, then results.join('')
ReportMessage(total, success, rs) ==
    [kind |-> "report", cause |-> "none", total |-> total, success |-> success,
     failed |-> total - success, lines |-> rs]

\* the line pushed for one loginKoyeb call
OutcomeLine(email, r) ==
    [email |-> email,
     ok |-> (r.kind = "pair" /\ r.success),
     exception |-> (r.kind = "throw"),
     message |-> r.message]

\* validateEnvVariables: throws a TypeError when env is undefined or null (line
\* 122), throws when the variable is unset or is not JSON, else
\* returns what JSON.parse gives (null and {} have no elements to iterate)
validateEnvVariables(e) ==
    LET c == e.KOYEB_ACCOUNTS IN
    CASE ~e.defined -> [threw |-> TRUE, cause |-> "env_type_error", items |-> <<>>]
      [] c.kind = "absent" -> [threw |-> TRUE, cause |-> "accounts_unset", items |-> <<>>]
      [] c.kind = "badjson" -> [threw |-> TRUE, cause |-> "accounts_invalid_json", items |-> <<>>]
      [] OTHER -> [threw |-> FALSE, cause |-> "none", items |-> c.items]

\* !KOYEB_ACCOUNTS || KOYEB_ACCOUNTS.length === 0
NoAccounts(e) ==
    \/ e.KOYEB_ACCOUNTS.kind = "null"
    \/ e.KOYEB_ACCOUNTS.kind = "array" /\ Len(e.KOYEB_ACCOUNTS.items) = 0

\* account.email?.trim() throws a TypeError: account is null, or email has no trim
ReadThrows(account) == account.isNull \/ account.email.t = "num"

\* const email = account.email?.trim()
EmailOf(account) ==
    IF account.email.t = "str" THEN Str(Trim(account.email.s)) ELSE Undef

\* faulty variant of Incomplete: only the email is checked
IncompleteEmailOnly(account) == Falsy(EmailOf(account))

\* if (!email || !password): the record is skipped
Incomplete(account) == Falsy(EmailOf(account)) \/ Falsy(account.password)

\* faulty variant of NoResults: results.length < 0
NoResultsNegative(rs) == Len(rs) < 0

\* results.length === 0
NoResults(rs) == Len(rs) = 0

\* faulty variant of AwaitSend: the call is not awaited
NoAwaitSend == TRUE

\* `await sendTGMessage(...)`: the handler resumes once the call has resolved
AwaitSend == spc = "ret"

\* faulty variant of EnterCatch: no catch, the exception leaves the handler
EnterCatchRethrows(cause) ==
    /\ hpc' = "escaped"
    /\ UNCHANGED <<sent, svars>>

\* faulty variant of EnterCatch: the catch logs the error and notifies nobody
EnterCatchSilent(cause) ==
    /\ hpc' = "notify_error"
    /\ sent' = sent
    /\ spc' = "ret"
    /\ sret' = SendSkipped
    /\ UNCHANGED <<sresp, tgCalls, tgOutcomes>>

\* catch (e): the standalone error message goes to sendTGMessage
EnterCatch(cause) ==
    /\ hpc' = "notify_error"
    /\ sent' = Append(sent, ErrorMessage(cause))
    /\ SendEnter(env)

\* Lines 134-144: read the configuration.
HandlerStart ==
    /\ hpc = "start"
    /\ LET v == validateEnvVariables(env) IN
       IF v.threw THEN /\ EnterCatch(v.cause)
                       /\ UNCHANGED accounts
       ELSE IF NoAccounts(env) THEN /\ EnterCatch("no_accounts")
                                    /\ UNCHANGED accounts
       ELSE /\ accounts' = v.items
            /\ hpc' = "loop"
            /\ UNCHANGED <<sent, svars>>
    /\ UNCHANGED <<env, index, results, successCount, events>>
    /\ UNCHANGED <<lvars, tvars>>

\* Lines 146-162: one pass of the loop up to its first await.
LoopIteration ==
    /\ hpc = "loop"
    /\ index < Len(accounts)
    /\ LET account == accounts[index + 1] IN
       IF ReadThrows(account)
       THEN /\ EnterCatch("type_error")
            /\ UNCHANGED <<index, events, lvars>>
       ELSE IF Incomplete(account)
       THEN /\ index' = index + 1
            /\ UNCHANGED <<hpc, events, sent, lvars, svars>>
       ELSE IF index > 0
       THEN /\ hpc' = "delay"
            /\ events' = Append(events, "delay")
            /\ UNCHANGED <<index, sent, lvars, svars>>
       ELSE /\ hpc' = "login"
            /\ events' = Append(events, "login")
            /\ LoginEnter(EmailOf(account), account.password)
            /\ UNCHANGED <<index, sent, svars>>
    /\ UNCHANGED <<env, accounts, results, successCount>>
    /\ UNCHANGED tvars

\* Line 159 has resolved: the 5 s are over, loginKoyeb is called.
DelayDone ==
    /\ hpc = "delay"
    /\ hpc' = "login"
    /\ events' = Append(events, "login")
    /\ LoginEnter(EmailOf(accounts[index + 1]), accounts[index + 1].password)
    /\ UNCHANGED <<env, accounts, index, results, successCount, sent>>
    /\ UNCHANGED <<tvars, svars>>

\* Lines 162-171: loginKoyeb has resolved; push the line, next pass.  The call is
\* over, so its locals are gone.
LoginReturn ==
    /\ hpc = "login"
    /\ lpc = "ret"
    /\ results' = Append(results, OutcomeLine(largs.email.s, lret))
    /\ successCount' = IF lret.kind = "pair" /\ lret.success
                       THEN successCount + 1 ELSE successCount
    /\ index' = index + 1
    /\ hpc' = "loop"
    /\ lpc' = "idle"
    /\ largs' = [email |-> Undef, password |-> Undef]
    /\ lpre' = NoPreflight
    /\ cookie' = <<>>
    /\ lresp' = NoResponse
    /\ lret' = NoResult
    /\ netlog' = <<>>
    /\ UNCHANGED <<env, accounts, events, sent>>
    /\ UNCHANGED <<tvars, svars>>

\* Lines 174-182: the loop is over; the report goes to sendTGMessage.
LoopEnd ==
    /\ hpc = "loop"
    /\ index >= Len(accounts)
    /\ IF NoResults(results)
       THEN EnterCatch("no_results")
       ELSE /\ hpc' = "notify_report"
            /\ sent' = Append(sent, ReportMessage(Len(accounts), successCount, results))
            /\ SendEnter(env)
    /\ UNCHANGED <<env, accounts, index, results, successCount, events>>
    /\ UNCHANGED <<lvars, tvars>>

\* Line 182 has resolved: the handler's promise settles, or the catch runs.
NotifyReportReturn ==
    /\ hpc = "notify_report"
    /\ AwaitSend
    /\ IF sret = "throw"
       THEN EnterCatch("send_threw")
       ELSE /\ hpc' = "done"
            /\ UNCHANGED <<sent, svars>>
    /\ UNCHANGED <<env, accounts, index, results, successCount, events>>
    /\ UNCHANGED <<lvars, tvars>>

\* Line 187 has resolved: the handler's promise settles.
NotifyErrorReturn ==
    /\ hpc = "notify_error"
    /\ AwaitSend
    /\ hpc' = IF sret = "throw" THEN "escaped" ELSE "done"
    /\ UNCHANGED <<env, accounts, index, results, successCount, events, sent>>
    /\ UNCHANGED <<lvars, tvars, svars>>

----------------------------------------------------------------------------
(* A direct call of loginKoyeb, outside the batch loop *)

DirectLogin ==
    /\ hpc = "direct"
    /\ hpc' = "direct_login"
    /\ \E e \in DirectEmails, p \in DirectPasswords : LoginEnter(e, p)
    /\ UNCHANGED <<env, accounts, index, results, successCount, events, sent>>
    /\ UNCHANGED <<tvars, svars>>

DirectReturn ==
    /\ hpc = "direct_login"
    /\ lpc = "ret"
    /\ hpc' = "direct_done"
    /\ UNCHANGED <<env, accounts, index, results, successCount, events, sent>>
    /\ UNCHANGED <<lvars, tvars, svars>>

----------------------------------------------------------------------------
(* The specification *)

DefaultEnv ==
    [defined |-> TRUE,
     KOYEB_ACCOUNTS |-> [kind |-> "absent", items |-> <<>>],
     TG_BOT_TOKEN |-> Undef, TG_CHAT_ID |-> Str(<<>>)]

Init ==
    /\ \/ hpc = "start" /\ env \in Envs
       \/ hpc = "direct" /\ env = DefaultEnv
    /\ accounts = <<>>
    /\ index = 0
    /\ results = <<>>
    /\ successCount = 0
    /\ events = <<>>
    /\ sent = <<>>
    /\ lpc = "idle"
    /\ largs = [email |-> Undef, password |-> Undef]
    /\ lpre = NoPreflight
    /\ cookie = <<>>
    /\ lresp = NoResponse
    /\ lret = NoResult
    /\ netlog = <<>>
    /\ timersSet = 0
    /\ timersFired = 0
    /\ spc = "idle"
    /\ sresp = 0
    /\ sret = "none"
    /\ tgCalls = <<>>
    /\ tgOutcomes = <<>>

Next ==
    \/ HandlerStart
    \/ LoopIteration
    \/ DelayDone
    \/ LoginReturn
    \/ LoopEnd
    \/ NotifyReportReturn
    \/ NotifyErrorReturn
    \/ DirectLogin
    \/ DirectReturn
    \/ PreflightResolve
    \/ PostResolve
    \/ BodyResolve
    \/ TimerFire
    \/ SendFirstResolve
    \/ SendFirstText
    \/ SendRetryResolve
    \/ SendRetryText

Spec == Init /\ [][Next]_vars

\* The steps that are sure to happen: the handler's own continuations, a
\* timer that has been set, and the fetches taken to resolve (the preflight GET
\* and the notification posts, the reading of their answers included).  The login POST and the reading of its body
\* are not among them: they may stay pending for ever.
Progress ==
    \/ HandlerStart
    \/ LoopIteration
    \/ DelayDone
    \/ LoginReturn
    \/ LoopEnd
    \/ NotifyReportReturn
    \/ NotifyErrorReturn
    \/ DirectLogin
    \/ DirectReturn
    \/ PreflightResolve
    \/ TimerFire
    \/ SendFirstResolve
    \/ SendFirstText
    \/ SendRetryResolve
    \/ SendRetryText

FairSpec == Spec /\ WF_vars(Progress)

----------------------------------------------------------------------------
(* Vocabulary of the properties *)

Items == env.KOYEB_ACCOUNTS.items
IsArray == env.KOYEB_ACCOUNTS.kind = "array"
Settled == hpc \in {"done", "escaped"}

\* a record whose fields cannot be read as strings: null, or an email that is
\* not a string
Unreadable(a) == a.isNull \/ a.email.t \notin {"undef", "str"}

\* a record with a non-empty email (spaces aside) and a non-empty password
NonEmptyEmail(v) == v.t = "num" \/ (v.t = "str" /\ Trim(v.s) # <<>>)
NonEmptyPassword(v) == v.t = "num" \/ (v.t = "str" /\ v.s # <<>>)
ValidRecord(a) == ~a.isNull /\ NonEmptyEmail(a.email) /\ NonEmptyPassword(a.password)

\* the email a line names for a record
LineEmail(a) == IF a.email.t = "str" THEN Trim(a.email.s) ELSE <<>>

\* the emails of the valid records of a list, in the order of the list
RECURSIVE ValidEmails(_)
ValidEmails(l) ==
    IF l = <<>> THEN <<>>
    ELSE (IF ValidRecord(Head(l)) THEN <<LineEmail(Head(l))>> ELSE <<>>)
            \o ValidEmails(Tail(l))

EmailsOf(lines) == [i \in 1..Len(lines) |-> lines[i].email]

----------------------------------------------------------------------------
(* C1 *)

\* C1: for every account list with at least one valid record, the finished run
\* has sent a report with exactly one outcome line per valid record, none for a
\* skipped record, in the order of the list.  Violated: a record whose email is
\* not a string (or a null entry) aborts the batch at line 148 (see C2).
C1_OneLinePerValidRecord ==
    (Settled /\ IsArray /\ \E i \in 1..Len(Items) : ValidRecord(Items[i]))
        => /\ Len(sent) = 1
           /\ sent[1].kind = "report"
           /\ EmailsOf(sent[1].lines) = ValidEmails(Items)

\* The same statement for the lists all of whose records can be read: it holds.
C1_HoldsForReadableLists ==
    (Settled /\ IsArray /\ (\E i \in 1..Len(Items) : ValidRecord(Items[i]))
        /\ \A i \in 1..Len(Items) : ~Unreadable(Items[i]))
        => /\ Len(sent) = 1
           /\ sent[1].kind = "report"
           /\ EmailsOf(sent[1].lines) = ValidEmails(Items)

----------------------------------------------------------------------------
(* C2 *)

\* what the lines of the report should be marked as: one line per record that
\* is processed, marked as an exception line when processing it threw
RECURSIVE ExpectedMarks(_)
ExpectedMarks(l) ==
    IF l = <<>> THEN <<>>
    ELSE (IF Unreadable(Head(l)) THEN <<TRUE>>
          ELSE IF ValidRecord(Head(l)) THEN <<FALSE>> ELSE <<>>)
            \o ExpectedMarks(Tail(l))

MarksOf(lines) == [i \in 1..Len(lines) |-> lines[i].exception]

\* C2: an exception raised while one account is processed, reading the
\* record's fields included, gives that account a line with the execution-
\* exception marker; the batch goes on, and the report has one line for every
\* processed account in order.  Violated: reading the fields (line 148) is
\* outside the try of lines 156-171, so the exception ends the batch.
C2_ExceptionIsIsolated ==
    (Settled /\ IsArray /\ \E i \in 1..Len(Items) : Unreadable(Items[i]))
        => /\ Len(sent) = 1
           /\ sent[1].kind = "report"
           /\ MarksOf(sent[1].lines) = ExpectedMarks(Items)

----------------------------------------------------------------------------
(* C3 *)

\* every record is skipped as incomplete (none is unreadable)
AllSkipped(l) == \A i \in 1..Len(l) : ~Unreadable(l[i]) /\ ~ValidRecord(l[i])

FatalCause == IF Len(Items) = 0 THEN "no_accounts" ELSE "no_results"

\* C3: no report with an empty outcome section is ever passed to the notifier,
\* and for an empty list or a list whose records are all skipped the only
\* message passed to it is the standalone error message of the fatal batch error.
C3_NoEmptyReport ==
    /\ \A i \in 1..Len(sent) : sent[i].kind = "report" => sent[i].lines # <<>>
    /\ (IsArray /\ AllSkipped(Items))
          => /\ \A i \in 1..Len(sent) : sent[i] = ErrorMessage(FatalCause)
             /\ Settled => Len(sent) = 1

C3_Witness ==
    /\ hpc = "done"
    /\ IsArray /\ Len(Items) = MaxAccounts /\ AllSkipped(Items)
    /\ sent = <<ErrorMessage("no_results")>>

----------------------------------------------------------------------------
(* C4 *)

FirstRejectedWith(statuses) ==
    /\ Len(tgOutcomes) >= 1
    /\ tgOutcomes[1].kind = "http"
    /\ tgOutcomes[1].status \in statuses

OneRetryWithoutParseMode ==
    /\ Len(tgCalls) = 2
    /\ tgCalls[1].parse_mode
    /\ ~tgCalls[2].parse_mode
    /\ (spc = "ret" /\ tgOutcomes[2].kind = "ok") => sret = "true"

\* C4 as stated: a first attempt rejected with any 4xx status is retried once
\* without parse_mode, and a successful retry is reported as delivered.
C4_Any4xxIsRetried ==
    FirstRejectedWith(400..499) => OneRetryWithoutParseMode

\* C4 amended: a first attempt rejected with status 400 (its error text read)
\* is retried exactly once, without parse_mode, and a successful retry makes
\* the call return true; a first attempt rejected with another 4xx status is
\* not retried and the call returns null.
C4_Only400IsRetried ==
    /\ FirstRejectedWith({400}) => OneRetryWithoutParseMode
    /\ FirstRejectedWith((400..499) \ {400})
          => /\ Len(tgCalls) = 1
             /\ spc = "ret"
             /\ sret = "null"
    /\ Len(tgCalls) <= 2

C4_Witness ==
    /\ spc = "ret"
    /\ FirstRejectedWith({400})
    /\ Len(tgCalls) = 2
    /\ tgOutcomes[2].kind = "ok"
    /\ sret = "true"

----------------------------------------------------------------------------
(* C5 *)

\* C5: sendTGMessage never raises: whatever the two posts do, the call
\* resolves to a value (true or null), and a post that fails without being
\* retried, or a failed retry, makes it null.  Violated: the configuration is
\* read at line 2, before the try, so a call without an environment object
\* (the call of line 187 on an event without one, see C11) raises a TypeError.
C5_SendNeverRaises ==
    /\ sret # "throw"
    /\ spc = "ret" => sret \in {"true", "null"}
    /\ (spc = "ret" /\ tgOutcomes # <<>> /\ tgOutcomes[Len(tgOutcomes)].kind # "ok")
          => sret = "null"

\* The same statement for the calls that are given an environment object: it
\* holds.
C5_HoldsWithEnvironment ==
    env.defined
        => /\ sret # "throw"
           /\ spc = "ret" => sret \in {"true", "null"}
           /\ (spc = "ret" /\ tgOutcomes # <<>> /\ tgOutcomes[Len(tgOutcomes)].kind # "ok")
                 => sret = "null"

C5_Witness ==
    /\ spc = "ret"
    /\ Len(tgOutcomes) = 2
    /\ tgOutcomes[2].kind = "network"
    /\ sret = "null"

----------------------------------------------------------------------------
(* C6 *)

Missing(v) == v.t = "undef" \/ (v.t = "str" /\ v.s = <<>>)

\* C6: with the bot token or the chat id missing, a call of sendTGMessage
\* posts nothing, does not raise and resolves to null at once, whatever the
\* message.  Violated: when they are missing because the event carries no
\* environment object, the call of line 187 raises at line 2 (see C5); it
\* posts nothing then, too.
C6_SkippedWithoutConfig ==
    (spc # "idle" /\ (Missing(env.TG_BOT_TOKEN) \/ Missing(env.TG_CHAT_ID)))
        => /\ spc = "ret"
           /\ sret = "null"
           /\ tgCalls = <<>>
           /\ tgOutcomes = <<>>

\* The same statement for an environment object that lacks the bot token or
\* the chat id: it holds.
C6_HoldsWithEnvironment ==
    (spc # "idle" /\ env.defined
        /\ (Missing(env.TG_BOT_TOKEN) \/ Missing(env.TG_CHAT_ID)))
        => /\ spc = "ret"
           /\ sret = "null"
           /\ tgCalls = <<>>
           /\ tgOutcomes = <<>>

C6_Witness ==
    /\ spc = "ret"
    /\ env.defined
    /\ Missing(env.TG_BOT_TOKEN) /\ ~Missing(env.TG_CHAT_ID)
    /\ sent[Len(sent)].kind = "report"
    /\ tgCalls = <<>>
    /\ sret = "null"

----------------------------------------------------------------------------
(* C7 *)

\* the email of the running call is what the program passes: a string (line
\* 162 passes the trimmed email of the record) or nothing
EmailIsStringOrMissing == largs.email.t \in {"str", "undef"}

\* C7: loginKoyeb never throws: for every email and password the program
\* passes and every behaviour of the preflight GET, the POST, the body read
\* and the timer, the call resolves to a pair, whose first element is true only
\* when the POST returned a success status, and false whenever it did not; so
\* the batch loop never records an execution-exception line.
C7_LoginNeverThrows ==
    /\ EmailIsStringOrMissing
          => /\ lret.kind # "throw"
             /\ lpc = "ret" => /\ lret.kind = "pair"
                               /\ lret.success <=> lresp = OkResponse
    /\ \A i \in 1..Len(results) : ~results[i].exception

\* Outside that domain: a direct call with a truthy email that is not a string
\* throws at line 63, before the try.
C7_NonStringEmailThrows ==
    (lpc = "ret" /\ largs.email.t = "num" /\ ~Falsy(largs.password))
        => lret = Thrown(TypeErrorMsg)

C7_Witness ==
    /\ lpc = "ret"
    /\ lresp \in ErrorResponses
    /\ lret = Pair(FALSE, BodyErrorMsg)

----------------------------------------------------------------------------
(* C8 *)

\* the timer of the login POST in flight fires
TimeoutOfPendingPost ==
    /\ lpc = "post"
    /\ timersFired + 1 = timersSet
    /\ timersFired' = timersSet

\* C8: when the login POST has not resolved and its timer fires, loginKoyeb
\* returns (false, "请求超时"), the timeout message and no other diagnostic.
\* Violated: the timer calls controller.abort() before it rejects, so a fetch
\* that rejects on abort settles the race first, with its AbortError.
C8_TimeoutMessage ==
    [][TimeoutOfPendingPost => (lpc' = "ret" /\ lret' = Pair(FALSE, TimeoutMsg))]_vars

----------------------------------------------------------------------------
(* C9 *)

\* C9: loginKoyeb called with an empty email or an empty password resolves to
\* (false, "邮箱或密码为空") and issues neither the preflight GET nor the POST.
C9_EmptyCredentials ==
    (lpc # "idle" /\ (Missing(largs.email) \/ Missing(largs.password)))
        => /\ lpc = "ret"
           /\ lret = Pair(FALSE, CredentialsEmptyMsg)
           /\ netlog = <<>>
           /\ timersSet = 0

C9_Witness ==
    /\ hpc = "direct_done"
    /\ largs = [email |-> Str(EmailA), password |-> Str(<<>>)]
    /\ lret = Pair(FALSE, CredentialsEmptyMsg)
    /\ netlog = <<>>

----------------------------------------------------------------------------
(* C10 *)

\* C10: when the promise given to event.waitUntil settles, on the report path
\* and on the error path, a message has been passed to sendTGMessage and that
\* call has resolved: no notification is in flight.
C10_NotificationAwaited ==
    Settled => /\ Len(sent) >= 1
               /\ spc = "ret"
               /\ sret # "none"

C10_Witness ==
    /\ hpc = "done"
    /\ sent[1].kind = "report"
    /\ Len(tgOutcomes) = 2
    /\ sret = "true"

----------------------------------------------------------------------------
(* C11 *)

\* the exception the run of this configuration ends with, "none" if there is none
RECURSIVE ListCause(_)
ListCause(l) ==
    IF l = <<>> THEN "none"
    ELSE IF Unreadable(Head(l)) THEN "type_error"
    ELSE ListCause(Tail(l))

ExpectedCause ==
    LET k == env.KOYEB_ACCOUNTS.kind IN
    CASE ~env.defined -> "env_type_error"
      [] k = "absent" -> "accounts_unset"
      [] k = "badjson" -> "accounts_invalid_json"
      [] k = "null" -> "no_accounts"
      [] k = "object" -> "no_results"
      [] OTHER -> IF Len(Items) = 0 THEN "no_accounts"
                  ELSE IF ListCause(Items) # "none" THEN ListCause(Items)
                  ELSE IF \A i \in 1..Len(Items) : ~ValidRecord(Items[i]) THEN "no_results"
                  ELSE "none"

\* C11: no exception leaves scheduledEventHandler, and a run in which one is
\* raised (configuration unset or not JSON, no accounts, no outcomes, an
\* exception inside the batch) ends having passed the error message of that
\* exception, not a report, to sendTGMessage.  Violated: on an event without
\* an environment object the catch itself throws (sendTGMessage reads env at
\* line 2, before its try), and the TypeError leaves the handler.
C11_ErrorsBecomeNotifications ==
    /\ hpc # "escaped"
    /\ \A i \in 1..Len(sent) : sent[i].kind = "error" => sent[i] = ErrorMessage(ExpectedCause)
    /\ (hpc = "done" /\ ExpectedCause # "none") => sent = <<ErrorMessage(ExpectedCause)>>

\* The same statement for the events that carry an environment object: it holds.
C11_HoldsWithEnvironment ==
    env.defined
        => /\ hpc # "escaped"
           /\ \A i \in 1..Len(sent) :
                 sent[i].kind = "error" => sent[i] = ErrorMessage(ExpectedCause)
           /\ (hpc = "done" /\ ExpectedCause # "none")
                 => sent = <<ErrorMessage(ExpectedCause)>>

C11_Witness ==
    /\ hpc = "done"
    /\ sent = <<ErrorMessage("accounts_invalid_json")>>
    /\ tgOutcomes # <<>>

----------------------------------------------------------------------------
(* C12 *)

\* the records the loop has finished with
Processed == SubSeq(accounts, 1, index)

CountOf(seq, x) == Cardinality({ i \in 1..Len(seq) : seq[i] = x })

\* a record with a missing email or a missing password
InvalidRecord(a) == ~Unreadable(a) /\ ~ValidRecord(a)

\* C12: a record with a missing email or password is skipped: no loginKoyeb
\* call is made for it and it gets no line (the lines and the login calls are
\* those of the valid records finished so far), it never ends the run (an
\* exception inside the batch comes from a record that cannot be read), and
\* the records after it are still processed (a run without such an exception
\* ends with the loop past the last record).
C12_InvalidRecordSkipped ==
    /\ EmailsOf(results) = ValidEmails(Processed)
    /\ CountOf(events, "login") =
          Len(ValidEmails(Processed)) + (IF hpc = "login" THEN 1 ELSE 0)
    /\ hpc = "login" => ValidRecord(accounts[index + 1])
    /\ (\E i \in 1..Len(sent) : sent[i].cause = "type_error")
          => index < Len(accounts) /\ Unreadable(accounts[index + 1])
    /\ (hpc = "done" /\ IsArray /\ \A i \in 1..Len(Items) : ~Unreadable(Items[i]))
          => index = Len(Items)

C12_Witness ==
    /\ hpc = "done"
    /\ Len(Items) = 2
    /\ InvalidRecord(Items[1])
    /\ ValidRecord(Items[2])
    /\ sent[1].kind = "report"
    /\ EmailsOf(sent[1].lines) = <<LineEmail(Items[2])>>

----------------------------------------------------------------------------
(* C13 *)

\* the call has returned a value
SendReturned == spc = "ret" /\ sret # SendThrew
SendWasSkipped == SendReturned /\ tgCalls = <<>>
SendDelivered == SendReturned /\ tgCalls # <<>> /\ tgOutcomes[Len(tgOutcomes)].kind = "ok"
SendFailed == SendReturned /\ tgCalls # <<>> /\ tgOutcomes[Len(tgOutcomes)].kind # "ok"

\* C13 as stated: the returned value tells a failed send from a skipped one.
C13_FailedDiffersFromSkipped ==
    SendFailed => sret # SendSkipped

\* C13 amended: the returned value has two values, true for a delivered send
\* and null for a skipped send and for a failed send alike: it tells delivered
\* from not delivered, and does not tell skipped from failed.
C13_TwoValuedResult ==
    /\ SendDelivered => sret = "true"
    /\ SendWasSkipped => sret = "null"
    /\ SendFailed => sret = "null"

C13_Witness ==
    /\ SendFailed
    /\ Len(tgOutcomes) = 1
    /\ tgOutcomes[1].kind = "network"
    /\ sret = SendSkipped

----------------------------------------------------------------------------
(* C14 *)

\* C14: the 5 s delay comes before every loginKoyeb call of a run except the
\* first one, and nowhere else: the first step of the batch is a login call,
\* every later login call directly follows one delay, and every delay directly
\* follows a login call.  Violated: the delay is taken when index > 0, so the
\* first login call of a list that starts with a skipped record is delayed.
C14_DelayBetweenLoginCalls ==
    \A i \in 1..Len(events) :
        /\ events[i] = "login" => (i = 1 \/ events[i - 1] = "delay")
        /\ events[i] = "delay" => (i > 1 /\ events[i - 1] = "login")

----------------------------------------------------------------------------
(* C15 *)

OkLines(lines) == Cardinality({ i \in 1..Len(lines) : lines[i].ok })
FailLines(lines) == Cardinality({ i \in 1..Len(lines) : ~lines[i].ok })

\* C15: in every report the success count is the number of success lines, the
\* failure count is the number of failure lines, and the two add up to the
\* number of lines.  Violated: the failure count is totalAccounts -
\* successCount, which counts the skipped records as failures.
C15_CountsAgreeWithLines ==
    \A i \in 1..Len(sent) :
        sent[i].kind = "report"
            => /\ sent[i].success = OkLines(sent[i].lines)
               /\ sent[i].failed = FailLines(sent[i].lines)
               /\ sent[i].success + sent[i].failed = Len(sent[i].lines)

\* Without skipped records the counts do agree.
C15_HoldsWithoutSkippedRecords ==
    \A i \in 1..Len(sent) :
        (sent[i].kind = "report" /\ \A j \in 1..Len(Items) : ValidRecord(Items[j]))
            => /\ sent[i].success = OkLines(sent[i].lines)
               /\ sent[i].failed = FailLines(sent[i].lines)
               /\ sent[i].success + sent[i].failed = Len(sent[i].lines)

----------------------------------------------------------------------------
(* C16 *)

\* a loginKoyeb call that has passed its preflight
PastPreflight == lpc \in {"post", "body", "ret"} /\ netlog # <<>>
\* the POST has just been issued: the outcome of the preflight is at hand
PostJustIssued == lpc = "post"
PostOf(log) == log[2]
SentCookieHeader == PostOf(netlog).cookie # <<>>
PreflightGaveSetCookie == ~lpre.threw /\ lpre.ok /\ lpre.setCookie.present

\* the authentication POST is issued once, after the GET
OnePostAfterGet ==
    /\ Len(netlog) = 2
    /\ netlog[1] = GetCall
    /\ PostOf(netlog).method = "POST"

\* c is the part of v before its first ';'
IsFirstPart(c, v) ==
    /\ Len(c) <= Len(v)
    /\ SubSeq(v, 1, Len(c)) = c
    /\ \A i \in 1..Len(c) : c[i] # ";"
    /\ (Len(c) = Len(v) \/ v[Len(c) + 1] = ";")

\* C16 as stated: however the preflight ends the POST is issued exactly once
\* after it, and it carries a Cookie header if and only if the preflight
\* returned a success status with a Set-Cookie value.
C16_CookieIffSetCookie ==
    /\ lpc = "preflight" => netlog = <<GetCall>>
    /\ PastPreflight => OnePostAfterGet
    /\ PostJustIssued => (SentCookieHeader <=> PreflightGaveSetCookie)

\* C16 amended: however the preflight ends the POST is issued exactly once
\* after it, and it carries a Cookie header if and only if the preflight
\* returned a success status with a Set-Cookie value whose part before the
\* first ';' is not empty; the header is that part.
C16_CookieIffNonEmptyFirstPart ==
    /\ lpc = "preflight" => netlog = <<GetCall>>
    /\ PastPreflight => OnePostAfterGet
    /\ PostJustIssued
          => /\ SentCookieHeader
                   <=> /\ PreflightGaveSetCookie
                       /\ lpre.setCookie.value # <<>>
                       /\ Head(lpre.setCookie.value) # ";"
             /\ SentCookieHeader => IsFirstPart(PostOf(netlog).cookie, lpre.setCookie.value)

C16_Witness ==
    /\ lpc = "post"
    /\ OnePostAfterGet
    /\ PreflightGaveSetCookie
    /\ Head(lpre.setCookie.value) = ";"
    /\ ~SentCookieHeader

\* The other ways the preflight can end, each followed by the POST.
C16_WitnessThrew == lpc = "post" /\ lpre.threw /\ OnePostAfterGet /\ ~SentCookieHeader
C16_WitnessHarvested ==
    /\ lpc = "post"
    /\ PreflightGaveSetCookie
    /\ OnePostAfterGet
    /\ PostOf(netlog).cookie = <<"s">>

----------------------------------------------------------------------------
(* C17 *)

SendConfigured == env.defined /\ ~Missing(env.TG_BOT_TOKEN) /\ ~Missing(env.TG_CHAT_ID)
FirstFailedOtherwise ==
    /\ Len(tgOutcomes) >= 1
    /\ \/ tgOutcomes[1].kind = "network"
       \/ tgOutcomes[1].kind = "textfail"
       \/ tgOutcomes[1].kind = "http" /\ tgOutcomes[1].status \in 500..599

\* C17: with the bot token and the chat id present a call of sendTGMessage
\* posts once or twice; it posts a second time only after the first post was
\* answered with status 400; a first post that fails in another way (5xx
\* status, network exception) is not retried and the call returns null.
C17_OneOrTwoPosts ==
    /\ (spc # "idle" /\ SendConfigured) => Len(tgCalls) \in 1..2
    /\ Len(tgCalls) = 2
          => /\ tgOutcomes[1].kind = "http"
             /\ tgOutcomes[1].status = RetryStatus
    /\ FirstFailedOtherwise
          => /\ Len(tgCalls) = 1
             /\ spc = "ret"
             /\ sret = "null"

C17_Witness ==
    /\ spc = "ret"
    /\ SendConfigured
    /\ Len(tgCalls) = 1
    /\ tgOutcomes[1].kind = "http"
    /\ tgOutcomes[1].status = 500
    /\ sret = "null"

----------------------------------------------------------------------------
(* C19 *)

\* C19: a run of scheduledEventHandler calls sendTGMessage exactly once: never
\* more than one message is handed to it, a finished run has handed exactly
\* one, the report or the error message, and this does not depend on how the
\* notification ended.
C19_ExactlyOneNotification ==
    /\ Len(sent) <= 1
    /\ Settled
          => /\ Len(sent) = 1
             /\ sent[1].kind \in {"report", "error"}
    /\ Len(sent) = 1 <=> spc # "idle"

C19_Witness ==
    /\ hpc = "done"
    /\ Len(sent) = 1
    /\ sent[1].kind = "report"
    /\ SendFailed

C19_WitnessError ==
    /\ hpc = "done"
    /\ Len(sent) = 1
    /\ sent[1].kind = "error"
    /\ SendDelivered

\* The call that raises is one call, too.
C19_WitnessRaised ==
    /\ hpc = "escaped"
    /\ Len(sent) = 1
    /\ sent[1].kind = "error"
    /\ sret = SendThrew

----------------------------------------------------------------------------
(* C20 *)

\* the callback of a timer runs: controller.abort() and reject()
TimerCallbackRuns == timersFired' = timersFired + 1
\* the timer that runs is the one of the loginKoyeb call in progress, whose
\* POST (or the reading of its body) has not ended
OfPendingLogin == timersFired + 1 = timersSet /\ lpc \in {"post", "body"}

\* C20: a timer's callback aborts and rejects only for a login attempt that is
\* still waiting for its POST; once loginKoyeb has returned, the timer of that
\* call never runs its callback.  Violated: the timer is never cleared, so
\* its callback runs 30 s after every POST, answered or not.
C20_AbortOnlyOnTimeout ==
    [][TimerCallbackRuns => OfPendingLogin]_vars

----------------------------------------------------------------------------
(* C18 *)

\* a behaviour that is a direct call of loginKoyeb, not a run of the handler
DirectCall == hpc \in {"direct", "direct_login", "direct_done"}

\* C18: a run of scheduledEventHandler whose preflight GETs and notification
\* posts resolve comes to its end, whatever the account list, even when login
\* POSTs or the reading of their bodies never resolve: the 30 s timer ends
\* such a login.
C18_RunTerminates ==
    <>(DirectCall \/ Settled)

\* A finished run with a login that only the timer ended.
C18_Witness ==
    /\ hpc = "done"
    /\ timersSet >= 1
    /\ timersFired = timersSet
    /\ Len(sent) = 1
    /\ sent[1].kind = "report"
    /\ \E i \in 1..Len(sent[1].lines) :
         sent[1].lines[i].message \in {TimeoutMsg, AbortErrorMsg}

====
